---- MODULE Spec2Model ----
(***************************************************************************)
(* A model of the job-discovery service: the client roster loaded from the *)
(* directory (main.py, fetch_clients_from_airtable), the cron              *)
(* registrations made at startup (startup_event), the pipeline run         *)
(* (scheduled_scrape), the two on-demand handlers (api_scrape, run_now),   *)
(* the provider adapter (scraper.py, run_scraper) and the CSV merge        *)
(* (scraper.py, save_jobs_to_csv).                                         *)
(*                                                                         *)
(* Python strings that the code takes apart (client names, schedule specs, *)
(* keyword lists, titles, queries) and the cells of the CSV files are       *)
(* sequences of one-character strings.                                     *)
(***************************************************************************)
EXTENDS Integers, Sequences, FiniteSets, TLC

(***************************************************************************)
(* Bounds of the model.                                                    *)
(***************************************************************************)
\* scheduling passes (invocations of startup_event) in one process
MaxPasses == 2
\* pipeline runs started (cron firings, run-now, manual scrape, CLI merges)
MaxRuns == 2
\* postings in one provider response
MaxJobs == 2
\* minutes the wall clock advances
MaxTime == 1

(***************************************************************************)
(* Python values.                                                          *)
(***************************************************************************)
\* Python's None (dict.get on an absent key), as a cell value
None == <<"<None>">>
\* pandas' missing value, what read_csv gives for an empty field
NaN == <<"<NaN>">>
\* dict.get(key, default)
Get(d, key, default) == IF key \in DOMAIN d THEN d[key] ELSE default

(***************************************************************************)
(* str methods, on sequences of characters.                                *)
(***************************************************************************)
UpperCase == <<"A", "B", "C", "E", "K", "N", "O", "R", "S", "U">>
LowerCase == <<"a", "b", "c", "e", "k", "n", "o", "r", "s", "u">>

\* str.lower() on one character
LowerChar(c) ==
    IF \E i \in 1..Len(UpperCase) : UpperCase[i] = c
    THEN LowerCase[CHOOSE i \in 1..Len(UpperCase) : UpperCase[i] = c]
    ELSE c

\* str.lower()
Lower(s) == [i \in 1..Len(s) |-> LowerChar(s[i])]

\* str.replace(old, new) for one-character old and new
Replace(s, old, new) == [i \in 1..Len(s) |-> IF s[i] = old THEN new ELSE s[i]]

\* str.strip(): leading and trailing whitespace removed
RECURSIVE LStrip(_)
LStrip(s) == IF s # <<>> /\ Head(s) = " " THEN LStrip(Tail(s)) ELSE s

RECURSIVE RStrip(_)
RStrip(s) ==
    IF s # <<>> /\ s[Len(s)] = " " THEN RStrip(SubSeq(s, 1, Len(s) - 1)) ELSE s

Strip(s) == RStrip(LStrip(s))

\* str.split(sep) for a one-character sep: always at least one part
RECURSIVE SplitFrom(_, _, _)
SplitFrom(s, sep, cur) ==
    IF s = <<>> THEN <<cur>>
    ELSE IF Head(s) = sep THEN <<cur>> \o SplitFrom(Tail(s), sep, <<>>)
    ELSE SplitFrom(Tail(s), sep, Append(cur, Head(s)))

Split(s, sep) == SplitFrom(s, sep, <<>>)

\* the `in` operator on strings: k is a substring of s
Contains(s, k) ==
    \E i \in 0..(Len(s) - Len(k)) : SubSeq(s, i + 1, i + Len(k)) = k

(***************************************************************************)
(* int(text), as startup_event uses it on the two halves of a schedule.    *)
(* NotInt stands for the ValueError.                                       *)
(***************************************************************************)
NotInt == -1000

Digits == <<"0", "1", "2", "3", "4", "5", "6", "7", "8", "9">>

IsDigit(c) == \E i \in 1..10 : Digits[i] = c

DigitValue(c) == (CHOOSE i \in 1..10 : Digits[i] = c) - 1

RECURSIVE DigitsValue(_, _)
DigitsValue(s, acc) ==
    IF s = <<>> THEN acc ELSE DigitsValue(Tail(s), 10 * acc + DigitValue(Head(s)))

\* int(): surrounding whitespace is ignored, one sign is allowed, the rest
\* must be a non-empty run of decimal digits
PyInt(text) ==
    LET t == Strip(text)
        signed == t # <<>> /\ Head(t) \in {"+", "-"}
        body == IF signed THEN Tail(t) ELSE t
    IN  IF body = <<>> \/ \E i \in 1..Len(body) : ~IsDigit(body[i])
        THEN NotInt
        ELSE IF signed /\ Head(t) = "-"
             THEN 0 - DigitsValue(body, 0)
             ELSE DigitsValue(body, 0)

(***************************************************************************)
(* The directory: what the Airtable table can hold.                        *)
(***************************************************************************)
NameAB == <<"a", " ", "b">>
NameA_B == <<"a", "_", "b">>
NameC == <<"c">>

\* the defaults of fetch_clients_from_airtable
DefaultProfession == <<"U", "n", "k", "n", "o", "w", "n">>
DefaultLocation == <<"N", "e", "w", " ", "Z", "e", "a", "l", "a", "n", "d">>
DefaultScrapeTime == <<"0", "8", ":", "0", "0">>

\* the "fields" of the records the table can return: a client with
\* keywords, one whose schedule is no hour:minute, one with the defaults,
\* and a record without a name whose hour is out of range
RecKeywords ==
    ("Name" :> NameAB) @@ ("Profession" :> <<"R", "N">>)
        @@ ("Location" :> <<"A", "k", "l">>)
        @@ ("Scrape Time" :> <<"0", "9", ":", "3", "0">>)
        @@ ("CV Keywords" :> <<"n", "u", "r", "s", "e", ",", " ">>)
RecBadTime == ("Name" :> NameA_B) @@ ("Scrape Time" :> <<"9", "h">>)
RecDefaults == ("Name" :> NameC) @@ ("Profession" :> <<"R", "N">>)
RecNoName ==
    ("Profession" :> <<"R", "N">>) @@ ("Scrape Time" :> <<"2", "5", ":", "0", "0">>)

DirectoryRecords == {RecKeywords, RecBadTime, RecDefaults, RecNoName}

\* sequences over S of length at most n
SeqsUpTo(S, n) == UNION {[1..k -> S] : k \in 0..n}

\* the answers of the directory to one GET
DirectoryResponses ==
    {[kind |-> "ok", records |-> r] : r \in SeqsUpTo(DirectoryRecords, 2)}
        \cup {[kind |-> "status", records |-> <<>>],
              [kind |-> "raise", records |-> <<>>]}

\* the answers the application is started with
BootResponses ==
    {r \in DirectoryResponses :
        r.kind = "ok" =>
            r.records \in {<<>>, <<RecDefaults>>, <<RecKeywords, RecBadTime>>,
                           <<RecKeywords, RecDefaults>>}}

(***************************************************************************)
(* The job-search provider: what one search can answer.                    *)
(***************************************************************************)
Nurse == <<"N", "U", "R", "S", "E">>
Cook == <<"C", "o", "o", "k">>
Link1 == <<"L", "1">>
Link2 == <<"L", "2">>

\* raw postings, as the dicts of the provider's "jobs_results"
PostNurse ==
    ("title" :> Nurse) @@ ("description" :> <<>>)
        @@ ("company" :> <<"A">>) @@ ("company_name" :> <<"A">>)
        @@ ("link" :> Link1) @@ ("job_apply_link" :> Link1)
        @@ ("location" :> <<"A", "k", "l">>)
PostCook ==
    ("title" :> Cook)
        @@ ("company_name" :> <<"B">>)
        @@ ("link" :> Link2) @@ ("job_apply_link" :> Link2)
        @@ ("location" :> <<"A", "k", "l">>)
\* another posting behind the link of PostNurse
PostSameLink ==
    ("title" :> Cook) @@ ("description" :> <<"n", "u", "r", "s", "e">>)
        @@ ("company_name" :> <<"C">>)
        @@ ("link" :> Link1) @@ ("job_apply_link" :> Link1)

Postings == {PostNurse, PostCook}

\* the outcomes of requests.get(...), raise_for_status() and response.json():
\*   transport  requests.get raised
\*   http       a non-success status, raise_for_status raised
\*   badjson    the body is not JSON, response.json() raised
\*   null       a JSON object whose "jobs_results" is null
\*   ok         a JSON object with a list of postings, or without the key
FailureKinds == {"transport", "http", "badjson", "null"}

ResponsesOver(posts) ==
    {[kind |-> "ok", jobs |-> j] : j \in SeqsUpTo(posts, MaxJobs)}
        \cup {[kind |-> k, jobs |-> <<>>] : k \in FailureKinds}

\* the answers to the searches of the service
ProviderResponses == ResponsesOver(Postings)

\* requests.get(url, params=params) is given no timeout: a provider that
\* accepts the connection and never answers keeps the call from returning
StallResponse == [kind |-> "stall", jobs |-> <<>>]

\* the answers to the searches of the command-line scraper
CliResponses == ResponsesOver(Postings \cup {PostSameLink})

(***************************************************************************)
(* run_scraper: what the adapter returns. The assignment to `jobs` comes   *)
(* before the len(jobs) of the log line, so a null "jobs_results" is       *)
(* assigned, len(None) raises inside the try, and None is returned.        *)
(***************************************************************************)
RunScraper(resp) ==
    CASE resp.kind = "ok" -> [isNone |-> FALSE, jobs |-> resp.jobs]
      [] resp.kind = "null" -> [isNone |-> TRUE, jobs |-> <<>>]
      [] OTHER -> [isNone |-> FALSE, jobs |-> <<>>]

(***************************************************************************)
(* The pipeline of scheduled_scrape and api_scrape.                        *)
(***************************************************************************)
\* f"{profession} jobs {location}"
AutoQuery(client) ==
    client.profession \o <<" ", "j", "o", "b", "s", " ">> \o client.location

\* the override taken whenever it is not the empty string
ApiQueryVerbatim(client, query) ==
    IF query = <<>> THEN AutoQuery(client) ELSE query

\* api_scrape: `if not query.strip()` replaces a blank override
ApiQuery(client, query) ==
    IF Strip(query) = <<>> THEN AutoQuery(client) ELSE query

\* [k.strip().lower() for k in cv_keywords.split(",") if k.strip()]
RECURSIVE CleanKeywords(_)
CleanKeywords(parts) ==
    IF parts = <<>> THEN <<>>
    ELSE (IF Strip(Head(parts)) # <<>>
          THEN <<Lower(Strip(Head(parts)))>> ELSE <<>>)
         \o CleanKeywords(Tail(parts))

Keywords(cv_keywords) == CleanKeywords(Split(cv_keywords, ","))

\* the keywords compared with the text as the provider wrote it
MatchesExact(job, keywords) ==
    LET text == Get(job, "title", <<>>) \o Get(job, "description", <<>>)
    IN  \E i \in 1..Len(keywords) : Contains(text, keywords[i])

\* any(k in (title + description).lower() for k in keywords)
Matches(job, keywords) ==
    LET text == Lower(Get(job, "title", <<>>) \o Get(job, "description", <<>>))
    IN  \E i \in 1..Len(keywords) : Contains(text, keywords[i])

RECURSIVE KeepMatching(_, _)
KeepMatching(jobs, keywords) ==
    IF jobs = <<>> THEN <<>>
    ELSE (IF Matches(Head(jobs), keywords) THEN <<Head(jobs)>> ELSE <<>>)
         \o KeepMatching(Tail(jobs), keywords)

\* the filter applied whether or not there are keywords
FilterAlways(jobs, cv_keywords) == KeepMatching(jobs, Keywords(cv_keywords))

\* scheduled_scrape filters only `if keywords:`
KeywordFilter(jobs, cv_keywords) ==
    IF Keywords(cv_keywords) = <<>> THEN jobs
    ELSE KeepMatching(jobs, Keywords(cv_keywords))

\* the postings a run keeps: scheduled_scrape (cron and run-now) filters
\* by the client's keywords, api_scrape does not
RunJobs(kind, client, found) ==
    IF kind = "api" THEN found ELSE KeywordFilter(found, client.cv_keywords)

\* client['name'].replace(" ", "_"), the name of the client's CSV file
SafeName(name) == Replace(name, " ", "_")

\* the DataFrame rows of main.py
Row(job) ==
    ("Job Title" :> Get(job, "title", None))
        @@ ("Company Name" :> Get(job, "company", None))
        @@ ("Application Weblink" :> Get(job, "link", None))
        @@ ("Location" :> Get(job, "location", None))

Rows(jobs) == [i \in 1..Len(jobs) |-> Row(jobs[i])]

\* DataFrame.to_csv: a missing value is written as an empty field
CsvCell(v) == IF v \in {None, NaN} THEN <<>> ELSE v

ToCsv(rows) == [i \in 1..Len(rows) |-> [c \in DOMAIN rows[i] |-> CsvCell(rows[i][c])]]

\* a file of the results directory
NoFile == [exists |-> FALSE, rows |-> <<>>]
CsvFile(rows) == [exists |-> TRUE, rows |-> ToCsv(rows)]

(***************************************************************************)
(* save_jobs_to_csv (scraper.py), the merge of the command-line scraper.   *)
(***************************************************************************)
\* the file the command-line scraper writes, filename="jobs.csv"
JobsCsv == <<"jobs.csv">>

\* the DataFrame rows of scraper.py
ScraperRow(job) ==
    ("Job Title" :> Get(job, "title", None))
        @@ ("Company Name" :> Get(job, "company_name", None))
        @@ ("Application Weblink" :> Get(job, "job_apply_link", None))
        @@ ("Location" :> Get(job, "location", None))

ScraperRows(jobs) == [i \in 1..Len(jobs) |-> ScraperRow(jobs[i])]

\* pd.read_csv: an empty field is read as NaN
ReadCell(v) == IF v = <<>> THEN NaN ELSE v

ReadCsv(rows) == [i \in 1..Len(rows) |-> [c \in DOMAIN rows[i] |-> ReadCell(rows[i][c])]]

\* drop_duplicates compares the subset column; missing values are equal to
\* each other
DupKey(row) ==
    IF row["Application Weblink"] \in {None, NaN}
    THEN NaN ELSE row["Application Weblink"]

\* drop_duplicates(subset=["Application Weblink"], keep="first")
RECURSIVE DropDuplicates(_, _)
DropDuplicates(rows, seen) ==
    IF rows = <<>> THEN <<>>
    ELSE IF DupKey(Head(rows)) \in seen
         THEN DropDuplicates(Tail(rows), seen)
         ELSE <<Head(rows)>>
                 \o DropDuplicates(Tail(rows), seen \cup {DupKey(Head(rows))})

\* the file after save_jobs_to_csv(jobs, filename): nothing is done for an
\* empty batch; an existing file is read, concatenated, deduplicated and
\* rewritten; a missing file is written with the batch as it is
SaveJobsToCsv(file, jobs) ==
    IF jobs = <<>> THEN file
    ELSE IF file.exists
         THEN CsvFile(DropDuplicates(ReadCsv(file.rows) \o ScraperRows(jobs), {}))
         ELSE CsvFile(ScraperRows(jobs))

\* the status assigned before the file is written
StatusFirst == <<"stamp", "count", "write">>

\* the statements of scheduled_scrape / api_scrape after the search, in
\* program order: df.to_csv, client["last_run"] = ..., client["last_count"] = ...
ProgramOrder == <<"write", "stamp", "count">>

FileNames == {SafeName(r["Name"]) : r \in {d \in DirectoryRecords : "Name" \in DOMAIN d}}

\* the client names a request can carry
ClientParams == {NameAB, NameA_B, NameC}

\* the query overrides a manual scrape can carry
Overrides == {<<>>, <<" ">>, <<"x">>}

VARIABLES
    clients,        \* the client dicts ever created, by object identity
    clients_data,   \* the global roster: identities, in dict insertion order
    sched_jobs,     \* the registrations of the BackgroundScheduler
    started,        \* scheduler.start() has been called
    passes,         \* invocations of startup_event so far
    files,          \* the CSV files of the results directory, by file name
    runs,           \* the run in progress on the event loop (0) and in the
                    \* worker of each registration (1..)
    nruns,          \* runs started so far
    now,            \* the wall clock, in minutes
    ev              \* what the last step did

vars == <<clients, clients_data, sched_jobs, started, passes, files, runs, nruns,
          now, ev>>

NoEvent == [type |-> "none"]
Idle == [pc |-> 0]
Slots == DOMAIN runs

(***************************************************************************)
(* fetch_clients_from_airtable                                             *)
(***************************************************************************)
\* the dict built for one record
ClientDict(fields) ==
    [name |-> fields["Name"],
     profession |-> Get(fields, "Profession", DefaultProfession),
     location |-> Get(fields, "Location", DefaultLocation),
     scrape_time |-> Get(fields, "Scrape Time", DefaultScrapeTime),
     cv_keywords |-> Get(fields, "CV Keywords", <<>>),
     last_run |-> -1,
     last_count |-> 0]

\* clients_data[name] = {...}: a repeated key keeps its place and takes the
\* new value; `if name:` skips a record without a name
RECURSIVE BuildRoster(_, _)
BuildRoster(records, acc) ==
    IF records = <<>> THEN acc
    ELSE LET f == Head(records)
             name == Get(f, "Name", None)
         IN  IF name = None \/ name = <<>>
             THEN BuildRoster(Tail(records), acc)
             ELSE IF \E i \in 1..Len(acc) : acc[i].name = name
                  THEN BuildRoster(Tail(records),
                          [i \in 1..Len(acc) |->
                              IF acc[i].name = name THEN ClientDict(f) ELSE acc[i]])
                  ELSE BuildRoster(Tail(records), Append(acc, ClientDict(f)))

\* the roster after the fetch: a non-200 answer returns before the roster is
\* touched, a 200 answer replaces it by freshly created dicts
FetchedObjects(resp) ==
    IF resp.kind = "ok" THEN BuildRoster(resp.records, <<>>) ELSE <<>>

FetchedRoster(resp, heap, roster) ==
    IF resp.kind = "ok"
    THEN [i \in 1..Len(FetchedObjects(resp)) |-> Len(heap) + i]
    ELSE roster

(***************************************************************************)
(* startup_event                                                           *)
(***************************************************************************)
\* hour, minute = scrape_time.split(":"); int(hour); int(minute); the cron
\* trigger rejects values outside 0..23 and 0..59. FALSE is the exception.
CanSchedule(scrape_time) ==
    LET parts == Split(scrape_time, ":")
    IN  /\ Len(parts) = 2
        /\ PyInt(parts[1]) \in 0..23
        /\ PyInt(parts[2]) \in 0..59

Registration(id, scrape_time) ==
    LET parts == Split(scrape_time, ":")
    IN  [client |-> id, hour |-> PyInt(parts[1]), minute |-> PyInt(parts[2])]

\* the loop with the try/except around it: the first failure ends it
RECURSIVE ScheduleUntilFailure(_, _, _)
ScheduleUntilFailure(roster, heap, regs) ==
    IF roster = <<>> THEN regs
    ELSE LET id == Head(roster)
         IN  IF CanSchedule(heap[id].scrape_time)
             THEN ScheduleUntilFailure(Tail(roster), heap,
                              Append(regs, Registration(id, heap[id].scrape_time)))
             ELSE regs

\* the loop over clients_data.values(): each client in its own try/except
RECURSIVE ScheduleAll(_, _, _)
ScheduleAll(roster, heap, regs) ==
    IF roster = <<>> THEN regs
    ELSE LET id == Head(roster)
         IN  IF CanSchedule(heap[id].scrape_time)
             THEN ScheduleAll(Tail(roster), heap,
                              Append(regs, Registration(id, heap[id].scrape_time)))
             ELSE ScheduleAll(Tail(roster), heap, regs)

Startup(resp) ==
    /\ passes < MaxPasses
    /\ passes' = passes + 1
    /\ IF resp.kind = "raise"
       THEN \* requests.get or response.json() raised: nothing after it runs
            /\ UNCHANGED <<clients, clients_data, sched_jobs, started, runs>>
            /\ ev' = [type |-> "startup", raised |-> TRUE, fetch |-> resp.kind,
                      by |-> "fetch", roster |-> clients_data]
       ELSE /\ clients' = clients \o FetchedObjects(resp)
            /\ clients_data' = FetchedRoster(resp, clients, clients_data)
            /\ sched_jobs' = ScheduleAll(clients_data', clients', sched_jobs)
            /\ runs' = [s \in 0..Len(sched_jobs') |->
                          IF s \in DOMAIN runs THEN runs[s] ELSE Idle]
            /\ started' = TRUE
            \* a second scheduler.start() raises SchedulerAlreadyRunningError
            /\ ev' = [type |-> "startup", raised |-> started, fetch |-> resp.kind,
                      by |-> IF started THEN "start" ELSE "none",
                      roster |-> clients_data]
    /\ UNCHANGED <<files, nruns, now>>

\* the application starts once, before it serves requests
Boot == passes = 0 /\ \E resp \in BootResponses : Startup(resp)

\* any later invocation of startup_event in the same process
Refresh == \E resp \in DirectoryResponses : Startup(resp)

Tick ==
    /\ now < MaxTime
    /\ now' = now + 1
    /\ ev' = NoEvent
    /\ UNCHANGED <<clients, clients_data, sched_jobs, started, passes, files, runs,
                   nruns>>

(***************************************************************************)
(* A pipeline run, statement by statement. A run of the event loop blocks  *)
(* the loop (the handlers are `async def` and never await), a cron run is  *)
(* on a worker thread of the scheduler: the two interleave.                *)
(***************************************************************************)
\* clients_data.get(name)
Lookup(name) ==
    IF \E i \in 1..Len(clients_data) : clients[clients_data[i]].name = name
    THEN clients_data[CHOOSE i \in 1..Len(clients_data) :
                          clients[clients_data[i]].name = name]
    ELSE 0

\* the search and the filter, up to the DataFrame: None from the adapter is
\* not iterable and raises TypeError here
Begin(s, kind, id, query, resp) ==
    LET found == RunScraper(resp)
    IN  /\ nruns < MaxRuns
        /\ runs[s] = Idle
        /\ nruns' = nruns + 1
        /\ IF resp.kind = "stall"
           THEN \* the run stays inside run_scraper, before its first statement
                /\ runs' = [runs EXCEPT ![s] =
                              [pc |-> 0, kind |-> kind, client |-> id,
                               query |-> query, resp |-> resp.kind,
                               found |-> <<>>, jobs |-> <<>>,
                               assigned |-> FALSE]]
                /\ ev' = NoEvent
           ELSE IF found.isNone
           THEN /\ runs' = runs
                /\ ev' = [type |-> "raised", cause |-> "provider", slot |-> s,
                          run |-> [pc |-> 1, kind |-> kind, client |-> id,
                                   query |-> query, resp |-> resp.kind,
                                   found |-> <<>>, jobs |-> <<>>,
                                   assigned |-> FALSE]]
           ELSE /\ runs' = [runs EXCEPT ![s] =
                              [pc |-> 1, kind |-> kind, client |-> id,
                               query |-> query, resp |-> resp.kind,
                               found |-> found.jobs,
                               jobs |-> RunJobs(kind, clients[id], found.jobs),
                               assigned |-> FALSE]]
                /\ ev' = NoEvent
        /\ UNCHANGED <<clients, clients_data, sched_jobs, started, passes, files,
                       now>>

\* the cron trigger of registration i fires; max_instances is 1
Fire(i, resp) ==
    /\ started
    /\ i \in 1..Len(sched_jobs)
    /\ Begin(i, "cron", sched_jobs[i].client,
             AutoQuery(clients[sched_jobs[i].client]), resp)

\* GET /api/run_now?client=...
RunNow(param, resp) ==
    /\ started
    /\ LET id == Lookup(Replace(param, "_", " "))
       IN  IF id = 0
           THEN /\ runs[0] = Idle
                /\ ev' = [type |-> "notfound", handler |-> "run_now",
                          param |-> param]
                /\ UNCHANGED <<clients, clients_data, sched_jobs, started, passes,
                               files, runs, nruns, now>>
           ELSE Begin(0, "run_now", id, AutoQuery(clients[id]), resp)

\* GET /api/scrape?client=...&query=...
ApiScrape(param, query, resp) ==
    /\ started
    /\ LET id == Lookup(param)
       IN  IF id = 0
           THEN /\ runs[0] = Idle
                /\ ev' = [type |-> "notfound", handler |-> "api_scrape",
                          param |-> param]
                /\ UNCHANGED <<clients, clients_data, sched_jobs, started, passes,
                               files, runs, nruns, now>>
           ELSE Begin(0, "api", id, ApiQuery(clients[id], query), resp)

\* the statement a run is at
At(s) == IF runs[s].pc \in 1..Len(ProgramOrder) THEN ProgramOrder[runs[s].pc] ELSE "none"

\* the step after a statement: the next statement, or the return
Advance(s, r) ==
    IF r.pc = Len(ProgramOrder)
    THEN /\ runs' = [runs EXCEPT ![s] = Idle]
         /\ ev' = [type |-> "completed", slot |-> s, run |-> r]
    ELSE /\ runs' = [runs EXCEPT ![s] = [r EXCEPT !.pc = r.pc + 1]]
         /\ ev' = NoEvent

RunFile(s) == SafeName(clients[runs[s].client].name)

\* df.to_csv(filename, index=False): the file is replaced by this run's rows
WriteOk(s) ==
    /\ At(s) = "write"
    /\ files' = [files EXCEPT ![RunFile(s)] = CsvFile(Rows(runs[s].jobs))]
    /\ Advance(s, runs[s])
    /\ UNCHANGED <<clients, clients_data, sched_jobs, started, passes, nruns, now>>

\* df.to_csv raises OSError: the file could not be opened (left as it was)
\* or was truncated by the open and not written
WriteFail(s, truncated) ==
    /\ At(s) = "write"
    /\ files' = IF truncated
                THEN [files EXCEPT ![RunFile(s)] = CsvFile(<<>>)]
                ELSE files
    /\ runs' = [runs EXCEPT ![s] = Idle]
    /\ ev' = [type |-> "raised", cause |-> "persist", slot |-> s, run |-> runs[s]]
    /\ UNCHANGED <<clients, clients_data, sched_jobs, started, passes, nruns, now>>

\* client["last_run"] = pd.Timestamp.now().strftime("%Y-%m-%d %H:%M")
Stamp(s) ==
    /\ At(s) = "stamp"
    /\ clients' = [clients EXCEPT ![runs[s].client].last_run = now]
    /\ Advance(s, [runs[s] EXCEPT !.assigned = TRUE])
    /\ UNCHANGED <<clients_data, sched_jobs, started, passes, files, nruns, now>>

\* client["last_count"] = len(jobs)
Count(s) ==
    /\ At(s) = "count"
    /\ clients' = [clients EXCEPT ![runs[s].client].last_count = Len(runs[s].jobs)]
    /\ Advance(s, [runs[s] EXCEPT !.assigned = TRUE])
    /\ UNCHANGED <<clients_data, sched_jobs, started, passes, files, nruns, now>>

\* the event loop is free: no handler is inside its blocking call
LoopFree == started /\ runs[0] = Idle

\* one row of the status table, with the client name its two links carry
StatusRow(client) ==
    [name |-> client.name, last_run |-> client.last_run,
     last_count |-> client.last_count, link |-> SafeName(client.name)]

\* GET /status
StatusPage ==
    /\ LoopFree
    /\ ev' = [type |-> "status",
              rows |-> [i \in 1..Len(clients_data) |->
                           StatusRow(clients[clients_data[i]])]]
    /\ UNCHANGED <<clients, clients_data, sched_jobs, started, passes, files,
                   runs, nruns, now>>

\* GET /download?client=...
DownloadCsv(param) ==
    /\ LoopFree
    /\ LET safe_name == SafeName(param)
       IN  IF safe_name \in DOMAIN files /\ files[safe_name].exists
           THEN ev' = [type |-> "download", param |-> param,
                       file |-> safe_name, rows |-> files[safe_name].rows]
           ELSE ev' = [type |-> "notfound", handler |-> "download_csv",
                       param |-> param]
    /\ UNCHANGED <<clients, clients_data, sched_jobs, started, passes, files,
                   runs, nruns, now>>

(***************************************************************************)
(* scraper.py run as a program: one search, merged into jobs.csv. `if not  *)
(* jobs` also covers the None the adapter can return.                      *)
(***************************************************************************)
CliMerge(resp) ==
    /\ nruns < MaxRuns
    /\ nruns' = nruns + 1
    /\ files' = [files EXCEPT ![JobsCsv] = SaveJobsToCsv(@, RunScraper(resp).jobs)]
    /\ ev' = [type |-> "merged", before |-> files[JobsCsv],
              batch |-> RunScraper(resp).jobs]
    /\ UNCHANGED <<clients, clients_data, sched_jobs, started, passes, runs, now>>

Init ==
    /\ clients = <<>>
    /\ clients_data = <<>>
    /\ sched_jobs = <<>>
    /\ started = FALSE
    /\ passes = 0
    /\ files = [f \in FileNames \cup {JobsCsv} |-> NoFile]
    /\ runs = [s \in {0} |-> Idle]
    /\ nruns = 0
    /\ now = 0
    /\ ev = NoEvent

Next ==
    \/ Boot
    \/ Tick
    \/ \E i \in Slots, resp \in ProviderResponses : Fire(i, resp)
    \/ \E param \in ClientParams, resp \in ProviderResponses : RunNow(param, resp)
    \/ \E param \in ClientParams, query \in Overrides, resp \in ProviderResponses :
          ApiScrape(param, query, resp)
    \/ \E s \in Slots : WriteOk(s)
    \/ \E s \in Slots, truncated \in BOOLEAN : WriteFail(s, truncated)
    \/ \E s \in Slots : Stamp(s)
    \/ \E s \in Slots : Count(s)

Spec == Init /\ [][Next]_vars

\* the scheduling passes alone, repeated
NextRefresh == Refresh \/ Tick

SpecRefresh == Init /\ [][NextRefresh]_vars

\* the answers to the searches while the service is watched: one posting
\* at most, or no answer at all
ServeResponses ==
    {r \in ProviderResponses : r.kind = "ok" /\ Len(r.jobs) <= 1}
        \cup {StallResponse}

\* the service as its operator sees it: the roster is loaded and loaded
\* again, clients are run by the scheduler and on demand, the status page
\* and the exports are read, and the provider may not answer
NextServe ==
    \/ \E resp \in BootResponses : Startup(resp)
    \/ \E i \in Slots, resp \in ServeResponses : Fire(i, resp)
    \/ \E param \in ClientParams, resp \in ServeResponses : RunNow(param, resp)
    \/ \E s \in Slots : WriteOk(s)
    \/ \E s \in Slots : Stamp(s)
    \/ \E s \in Slots : Count(s)
    \/ StatusPage
    \/ \E param \in ClientParams : DownloadCsv(param)

SpecServe == Init /\ [][NextServe]_vars

\* the command-line scraper alone, run again and again
NextMerge == \E resp \in CliResponses : CliMerge(resp)

SpecMerge == Init /\ [][NextMerge]_vars

(***************************************************************************)
(* The properties checked.                                                 *)
(***************************************************************************)
\* the persisted store of a client dict
Store(id) == files[SafeName(clients[id].name)]

LinkOf(row) == row["Application Weblink"]

NoDupLinks(rows) ==
    \A i, j \in 1..Len(rows) : LinkOf(rows[i]) = LinkOf(rows[j]) => i = j

\* the merge of the design: the store, then the rows of the batch whose
\* link is neither in the store nor earlier in the batch, in batch order
RECURSIVE MergeOf(_, _)
MergeOf(store, batch) ==
    IF batch = <<>> THEN store
    ELSE IF \E i \in 1..Len(store) : LinkOf(store[i]) = LinkOf(Head(batch))
         THEN MergeOf(store, Tail(batch))
         ELSE MergeOf(Append(store, Head(batch)), Tail(batch))

\* C1: merging a batch a second time changes nothing, and the merged store
\* holds no application link twice (the batch may repeat a link, the file
\* may not exist yet).
C1_MergeIdempotent ==
    ev.type = "merged" =>
        /\ SaveJobsToCsv(files[JobsCsv], ev.batch) = files[JobsCsv]
        /\ NoDupLinks(files[JobsCsv].rows)

\* C2: no step of any run makes a client's persisted store smaller.
C2_StoreNeverShrinks ==
    [][\A f \in FileNames : Len(files'[f].rows) >= Len(files[f].rows)]_vars

\* C3: no two postings of one client's store have the same application link.
C3_UniqueLinks == \A f \in FileNames : NoDupLinks(files[f].rows)

\* C4: the store written by a run is the store before it followed by the
\* new postings of the batch, first seen first.
C4_MergeResult ==
    [][\A s \in Slots :
          WriteOk(s) =>
              files'[RunFile(s)].rows =
                  MergeOf(files[RunFile(s)].rows, ToCsv(Rows(runs[s].jobs)))]_vars

\* C5: when a run completes, the client's last result count is the number
\* of postings in the client's store.
C5_SnapshotCount ==
    ev.type = "completed" =>
        clients[ev.run.client].last_count = Len(Store(ev.run.client).rows)

\* C6: a run whose search failed does not raise out of the pipeline, and
\* completes with no postings, count 0 and a last-run time.
C6_ProviderFailure ==
    (ev.type \in {"raised", "completed"} /\ ev.run.resp \in FailureKinds) =>
        /\ ev.type = "raised" => ev.cause = "persist"
        /\ ev.type = "completed" =>
              /\ ev.run.found = <<>>
              /\ clients[ev.run.client].last_count = 0
              /\ clients[ev.run.client].last_run \in 0..now

RegistrationsOf(name) ==
    {j \in 1..Len(sched_jobs) : clients[sched_jobs[j].client].name = name}

\* C8: after any number of passes a client of the roster with a parseable
\* schedule has exactly one registration.
C8_OneRegistration ==
    \A i \in 1..Len(clients_data) :
        CanSchedule(clients[clients_data[i]].scrape_time) =>
            Cardinality(RegistrationsOf(clients[clients_data[i]].name)) = 1

\* "HH:MM": two runs of digits around one colon, an hour and a minute
IsHourMinute(text) ==
    \E k \in 1..Len(text) :
        /\ text[k] = ":"
        /\ k > 1 /\ k < Len(text)
        /\ \A i \in 1..Len(text) : i # k => IsDigit(text[i])
        /\ DigitsValue(SubSeq(text, 1, k - 1), 0) < 24
        /\ DigitsValue(SubSeq(text, k + 1, Len(text)), 0) < 60

Registered(id) == \E j \in 1..Len(sched_jobs) : sched_jobs[j].client = id

\* C9: after a pass, a client of the roster is registered exactly if its
\* schedule is an hour:minute, wherever malformed clients stand in the
\* roster; the first pass does not raise.
C9_ParseFailureIsolated ==
    /\ \A i \in 1..Len(clients_data) :
          Registered(clients_data[i])
              <=> IsHourMinute(clients[clients_data[i]].scrape_time)
    /\ (ev.type = "startup" /\ passes = 1 /\ started) => ~ev.raised

\* C9 happens: a malformed client stands before a registered one.
C9_Witness ==
    /\ Len(clients_data) = 2
    /\ ~IsHourMinute(clients[clients_data[1]].scrape_time)
    /\ Registered(clients_data[2])
    /\ ~Registered(clients_data[1])

\* C10: an on-demand run with the client's own query keeps the postings a
\* scheduled firing keeps for the same answer of the provider, so the rows
\* it writes and the count it records are the same.
C10_OnDemandEquivalent ==
    (/\ ev.type = "completed"
     /\ ev.run.kind \in {"run_now", "api"}
     /\ ev.run.query = AutoQuery(clients[ev.run.client])) =>
        ev.run.jobs = RunJobs("cron", clients[ev.run.client], ev.run.found)

\* a run that holds the provider's answer and has not yet finished
InProgress(s) == runs[s] # Idle /\ runs[s].pc \in 1..Len(ProgramOrder)

\* C11: two runs for the same client are never both between the
\* provider's answer and the end of the status update.
C11_Serialized ==
    \A s, t \in Slots :
        (s # t /\ InProgress(s) /\ InProgress(t)) =>
            clients[runs[s].client].name # clients[runs[t].client].name

\* C12: a refresh whose directory call failed (a non-success status, or an
\* exception from the request or from decoding the body) leaves the roster
\* as it was, and the failure does not leave startup_event.
C12_DirectoryUnavailable ==
    (ev.type = "startup" /\ ev.fetch # "ok") =>
        /\ clients_data = ev.roster
        /\ ev.by # "fetch"

\* the next statement of the run in slot s
RunStep(s) ==
    \/ WriteOk(s)
    \/ \E truncated \in BOOLEAN : WriteFail(s, truncated)
    \/ Stamp(s)
    \/ Count(s)

\* C13: a run that has started is never left waiting on the provider: it
\* always has a next statement to execute, so that it finishes and its
\* client is back in Scheduled.
C13_RunCompletes == \A s \in Slots : runs[s] # Idle => ENABLED RunStep(s)

\* "{profession} jobs {location}"
ProfileQuery(client) ==
    client.profession \o <<" ", "j", "o", "b", "s", " ">> \o client.location

\* the step starts a run in slot s
Starts(s) == runs[s] = Idle /\ runs'[s] # Idle

\* C14 as stated: the query of a run is the override, unchanged, whenever
\* the override is not the empty string, and the profile's query otherwise.
C14_OverrideVerbatim ==
    [][Starts(0) /\ runs'[0].kind = "api" =>
          \A param \in ClientParams, query \in Overrides,
             resp \in ProviderResponses :
              ApiScrape(param, query, resp) =>
                  runs'[0].query =
                      IF query # <<>> THEN query
                      ELSE ProfileQuery(clients[runs'[0].client])]_vars

\* C14: the query of a manual scrape is the override, unchanged, whenever
\* the override holds a character that is not whitespace, and the profile's
\* query when the override is empty or blank; a scheduled run and a
\* run-now run, which take no override, use the profile's query.
C14_QueryBuilder ==
    [][/\ Starts(0) /\ runs'[0].kind = "api" =>
             \A param \in ClientParams, query \in Overrides,
                resp \in ProviderResponses :
                 ApiScrape(param, query, resp) =>
                     runs'[0].query =
                         IF \E i \in 1..Len(query) : query[i] # " " THEN query
                         ELSE ProfileQuery(clients[runs'[0].client])
       /\ \A s \in Slots :
             Starts(s) /\ runs'[s].kind # "api" =>
                 runs'[s].query = ProfileQuery(clients[runs'[s].client])]_vars

\* C14 happens: a manual scrape runs with its override, which is not the
\* profile's query.
C14_Witness ==
    /\ runs[0] # Idle
    /\ runs[0].kind = "api"
    /\ runs[0].query = <<"x">>
    /\ runs[0].query # ProfileQuery(clients[runs[0].client])

\* the keywords of a comma-separated text: its entries trimmed and
\* lower-cased, the blank ones left out
TrimmedKeywords(text) ==
    {Lower(Strip(Split(text, ",")[i])) : i \in 1..Len(Split(text, ","))} \ {<<>>}

IsSubstring(k, text) ==
    \E i \in 0..(Len(text) - Len(k)) : SubSeq(text, i + 1, i + Len(k)) = k

\* a keyword is in the lower-cased title followed by the description
HasKeyword(job, keywords) ==
    \E k \in keywords :
        IsSubstring(k, Lower((IF "title" \in DOMAIN job THEN job["title"] ELSE <<>>)
                             \o (IF "description" \in DOMAIN job
                                 THEN job["description"] ELSE <<>>)))

\* a run of scheduled_scrape that holds its postings
Filtering(s) == InProgress(s) /\ runs[s].kind # "api"

BlankKeywordTexts == {<<>>, <<" ">>, <<",">>, <<" ", ",", " ">>}

\* C16: without a keyword (none configured, or only blank entries) the
\* postings a run keeps are the postings found, unchanged.
C16_EmptyKeywords ==
    \A s \in Slots :
        Filtering(s) =>
            /\ TrimmedKeywords(clients[runs[s].client].cv_keywords) = {}
                   => runs[s].jobs = runs[s].found
            /\ \A text \in BlankKeywordTexts :
                   KeywordFilter(runs[s].found, text) = runs[s].found

\* C16 happens: a scheduled run of a client without keywords keeps both
\* postings found.
C16_Witness ==
    \E s \in Slots :
        /\ Filtering(s)
        /\ TrimmedKeywords(clients[runs[s].client].cv_keywords) = {}
        /\ Len(runs[s].found) = 2
        /\ runs[s].jobs = runs[s].found

\* C17: in every state, also between a run's write and its status update,
\* the last result count of a client of the roster is at most the number
\* of postings in the client's store.
C17_CountWithinStore ==
    \A i \in 1..Len(clients_data) :
        clients[clients_data[i]].last_count <= Len(Store(clients_data[i]).rows)

\* the RunStatus the roster holds for a client name
StatusOf(name) ==
    [last_run |-> clients[Lookup(name)].last_run,
     last_count |-> clients[Lookup(name)].last_count]

\* C18: the RunStatus of a client of the roster changes only by the status
\* update that ends a run for that client; a directory refresh, a run for
\* another client, a status read and an export leave it as it was.
C18_StatusFrame ==
    [][\A name \in ClientParams :
          (/\ Lookup(name) # 0
           /\ Lookup(name)' # 0
           /\ StatusOf(name)' # StatusOf(name)) =>
              \E s \in Slots :
                  /\ runs[s] # Idle
                  /\ clients[runs[s].client].name = name
                  /\ Stamp(s) \/ Count(s)]_vars

\* C19: the write of a run for one client leaves the store of every client
\* of the roster with another name as it was, also when the two names
\* differ only by a space against an underscore.
C19_StoreIsolation ==
    [][\A s \in Slots, i \in 1..Len(clients_data) :
          (/\ WriteOk(s)
           /\ clients[clients_data[i]].name # clients[runs[s].client].name) =>
              Store(clients_data[i])' = Store(clients_data[i])]_vars

\* a run of some client has started and has not ended
Running == \E s \in Slots : runs[s] # Idle

\* C20: while a run is in progress, started by the scheduler or on demand,
\* a status read can be served.
C20_StatusWhileRunning == Running => ENABLED StatusPage

\* what the provider gave under the first of the keys it uses for a field,
\* the empty string when it gave none of them
Provided(job, keys) ==
    IF \E i \in 1..Len(keys) : keys[i] \in DOMAIN job
    THEN job[keys[CHOOSE i \in 1..Len(keys) :
                    /\ keys[i] \in DOMAIN job
                    /\ \A j \in 1..(i - 1) : keys[j] \notin DOMAIN job]]
    ELSE <<>>

\* the canonical posting of a raw posting
Canonical(job) ==
    ("Job Title" :> Provided(job, <<"title">>))
        @@ ("Company Name" :> Provided(job, <<"company_name", "company">>))
        @@ ("Application Weblink" :> Provided(job, <<"job_apply_link", "link">>))
        @@ ("Location" :> Provided(job, <<"location">>))

\* C21: the rows a run writes to the client's store are the canonical
\* postings of the postings it kept: the provider's title, company, link
\* and location, and the empty string for a field the provider left out.
C21_Normalized ==
    [][\A s \in Slots :
          WriteOk(s) =>
              files'[RunFile(s)].rows =
                  [i \in 1..Len(runs[s].jobs) |-> Canonical(runs[s].jobs[i])]]_vars

\* C22: a run-now request carrying the link the status page shows for a
\* client of the roster starts a run for that client: it is not answered
\* "Client not found" and the run is not another client's.
C22_RunNowRoundTrip ==
    [][\A i \in 1..Len(clients_data), resp \in ServeResponses :
          RunNow(StatusRow(clients[clients_data[i]]).link, resp) =>
              /\ runs'[0] # Idle
              /\ runs'[0].client = clients_data[i]]_vars
====
